---- MODULE Spec2Model ----
(***************************************************************************)
(* Genomic Region Overlap Engine.                                          *)
(*                                                                         *)
(*   src/backend/main.py    the query server: find_overlaps prunes the     *)
(*                          catalog with the boundary index and streams    *)
(*                          every candidate through fetch_and_parse_stream *)
(*   src/data/preprocess.py the Boundary Index Builder: run_preprocess /   *)
(*                          get_track_bounds, writing track_boundaries.json*)
(*   src/data/indexer.py    the Subset Indexer: process_track samples a    *)
(*                          track file into a reservoir, build_index       *)
(*                          writes the samples to the spatial store        *)
(*                                                                         *)
(* The Interval Merge Calculator, which has no source file here, follows   *)
(* section 4.1 of the specification.                                       *)
(*                                                                         *)
(* Text is modelled as what it is: a string is a sequence of one-character *)
(* strings, a line of a track file is such a sequence ending in "\n", and  *)
(* lower(), replace(), strip(), split(), startswith() and int() are        *)
(* computed on the characters.                                             *)
(***************************************************************************)
EXTENDS Integers, Sequences, FiniteSets, TLC

(***************************************************************************)
(* Program constants.                                                      *)
(***************************************************************************)
\* main.py:62   if i > 20000: break
LINE_CAP == 20000
\* main.py:85   if len(overlapping_regions) >= 10: break
MATCH_CAP == 10
\* main.py:54   if response.status_code != 200: return None
HTTP_OK == 200
\* main.py:102  maxTracks: int = 20
DEFAULT_MAX_TRACKS == 20
\* main.py:127  ThreadPoolExecutor(max_workers=10)
SCAN_WORKERS == 10
\* preprocess.py:56   [start, start + 10_000_000]
WINDOW == 10000000
\* preprocess.py:96   if len(boundary_index) % 500 == 0
SAVE_EVERY == 500
\* indexer.py:29   RESERVOIR_SIZE = 1000
RESERVOIR_SIZE == 1000

(***************************************************************************)
(* Bounds of the model.                                                    *)
(***************************************************************************)
\* how many lines (and matching records) a long stream holds beyond a cap
Extra == 2
\* how many entries of tracks outside the catalog a persisted index may
\* hold below a multiple of SAVE_EVERY
LegacyGap == 2
\* the coordinates that check_overlap is called on directly
MaxCoord == 3
\* the processes of the indexer's pool (indexer.py:13, os.cpu_count())
Cpus == 2
\* the positions, and the number of intervals, that the Interval Merge
\* Calculator is called on
MaxPos == 4
MaxIntervals == 3

\* Python's None; a value that may be None is a sequence of at most one element
None == <<>>
Some(x) == <<x>>

(***************************************************************************)
(* Python string operations, on sequences of characters.                   *)
(***************************************************************************)
UpperChars == <<"A","B","C","D","E","F","G","H","I","J","K","L","M",
                "N","O","P","Q","R","S","T","U","V","W","X","Y","Z">>
LowerChars == <<"a","b","c","d","e","f","g","h","i","j","k","l","m",
                "n","o","p","q","r","s","t","u","v","w","x","y","z">>
DigitChars == <<"0","1","2","3","4","5","6","7","8","9">>
Whitespace == {" ", "\t", "\n", "\r"}

\* str.lower(), one character
LowerChar(c) ==
    IF \E k \in 1..26 : UpperChars[k] = c
    THEN LowerChars[CHOOSE k \in 1..26 : UpperChars[k] = c]
    ELSE c

\* str.lower()
Lower(s) == [k \in 1..Len(s) |-> LowerChar(s[k])]

\* str.startswith(p)
StartsWith(s, p) == Len(s) >= Len(p) /\ SubSeq(s, 1, Len(p)) = p

\* str.startswith((p1, p2, ...))
StartsWithAny(s, ps) == \E p \in ps : StartsWith(s, p)

\* str.replace(old, ''): every non-overlapping occurrence, left to right
RECURSIVE Remove(_, _)
Remove(s, old) ==
    IF Len(s) < Len(old) THEN s
    ELSE IF SubSeq(s, 1, Len(old)) = old
         THEN Remove(SubSeq(s, Len(old) + 1, Len(s)), old)
         ELSE <<s[1]>> \o Remove(Tail(s), old)

\* str.strip()
RECURSIVE LStrip(_)
LStrip(s) == IF s # <<>> /\ s[1] \in Whitespace THEN LStrip(Tail(s)) ELSE s
RECURSIVE RStrip(_)
RStrip(s) ==
    IF s # <<>> /\ s[Len(s)] \in Whitespace
    THEN RStrip(SubSeq(s, 1, Len(s) - 1)) ELSE s
Strip(s) == RStrip(LStrip(s))

\* str.split(sep), sep one character
RECURSIVE Split(_, _)
Split(s, sep) ==
    IF \A k \in 1..Len(s) : s[k] # sep THEN <<s>>
    ELSE LET k == CHOOSE j \in 1..Len(s) :
                      s[j] = sep /\ \A h \in 1..(j - 1) : s[h] # sep
         IN  <<SubSeq(s, 1, k - 1)>> \o Split(SubSeq(s, k + 1, Len(s)), sep)

\* int(s): surrounding whitespace and one sign are accepted, then decimal
\* digits; anything else raises ValueError (ok = FALSE).  The alphabet of
\* the model holds no "_" digit separator.
DigitVal(c) == (CHOOSE k \in 1..10 : DigitChars[k] = c) - 1
IsDigit(c) == \E k \in 1..10 : DigitChars[k] = c
RECURSIVE DigitsVal(_)
DigitsVal(s) ==
    IF s = <<>> THEN 0
    ELSE 10 * DigitsVal(SubSeq(s, 1, Len(s) - 1)) + DigitVal(s[Len(s)])
int(s) ==
    LET t == Strip(s)
        signed == t # <<>> /\ t[1] \in {"+", "-"}
        d == IF signed THEN Tail(t) ELSE t
        ok == d # <<>> /\ \A k \in 1..Len(d) : IsDigit(d[k])
    IN  [ok |-> ok,
         v  |-> IF ~ok THEN 0
                ELSE IF signed /\ t[1] = "-" THEN 0 - DigitsVal(d)
                ELSE DigitsVal(d)]

\* str(n) for n >= 0, used to write the track files of the model
RECURSIVE Dec(_)
Dec(n) == IF n < 10 THEN <<DigitChars[n + 1]>>
          ELSE Dec(n \div 10) \o <<DigitChars[(n % 10) + 1]>>

\* '\t'.join(fields) + '\n'
RECURSIVE Join(_)
Join(fields) ==
    IF Len(fields) = 0 THEN <<>>
    ELSE IF Len(fields) = 1 THEN fields[1]
    ELSE fields[1] \o <<"\t">> \o Join(Tail(fields))
Line(fields) == Join(fields) \o <<"\n">>

(***************************************************************************)
(* Track files.  A stream is run-length encoded: a sequence of runs, each  *)
(* a line and the number of times it repeats, so that a file longer than   *)
(* LINE_CAP is a small value.  The scanner reads it one line at a time.    *)
(***************************************************************************)
Run(line, n) == [line |-> line, n |-> n]

RECURSIVE StreamLen(_)
StreamLen(stream) ==
    IF stream = <<>> THEN 0 ELSE stream[1].n + StreamLen(Tail(stream))

\* the line at 0-based position i of the stream (i < StreamLen(stream))
RECURSIVE LineAt(_, _)
LineAt(stream, i) ==
    IF i < stream[1].n THEN stream[1].line
    ELSE LineAt(Tail(stream), i - stream[1].n)

chr1 == <<"c","h","r","1">>
chr2 == <<"c","h","r","2">>
chrX == <<"c","h","r","X">>
CHR1 == <<"C","H","R","1">>
bare1 == <<"1">>

Rec(chrom, s, e, extra) == Line(<<chrom, Dec(s), Dec(e)>> \o extra)
HeaderLine == <<"#","h","d","r","\n">>
TrackLine == <<"t","r","a","c","k"," ","x","\n">>
BadStartLine == Line(<<chr1, <<"a","b","c">>, Dec(1500)>>)
BadEndLine == Line(<<chr1, Dec(900), <<"1",".","5">>>>)
TwoFieldLine == Line(<<chr1, Dec(900)>>)
peak == <<"p","k">>

(***************************************************************************)
(* main.py: check_overlap                                                  *)
(***************************************************************************)
\* the slip of a closed comparison on one side
check_overlap_closed(q_start, q_end, t_start, t_end) ==
    q_start <= t_end /\ t_start < q_end

check_overlap(q_start, q_end, t_start, t_end) ==
    q_start < t_end /\ t_start < q_end

\* main.py:49, 69, 104: the chromosome label as the server compares it
NormChr(s) == Remove(Lower(s), <<"c","h","r">>)

(***************************************************************************)
(* main.py: fetch_and_parse_stream, the body of the loop over the lines.   *)
(* The result is how the iteration ends ("continue" or "break"), the list  *)
(* overlapping_regions after it, and whether the line was examined, that   *)
(* is, got past the guard on i.                                            *)
(***************************************************************************)
\* fields[3:6]
Extra3(fields) ==
    SubSeq(fields, 4, IF Len(fields) < 6 THEN Len(fields) ELSE 6)

LoopOut(ctl, regions, examined) ==
    [ctl |-> ctl, regions |-> regions, examined |-> examined]

\* main.py:62
OverLineCap(i) == i > LINE_CAP

\* the slip of stopping one match late
MatchCapPassed(regions) == Len(regions) > MATCH_CAP

\* main.py:85
MatchCapReached(regions) == Len(regions) >= MATCH_CAP

\* main.py:76
PastQuery(t_start, q_end) == t_start > q_end

\* the slip of ending the scan at a record that does not parse
OnValueErrorAbort(regions) == LoopOut("break", regions, TRUE)

\* the slip of ending the scan at a record of another chromosome
OtherChromosomeStops(regions) == LoopOut("break", regions, TRUE)

\* main.py:70  if t_chrom != norm_query_chr: continue
OtherChromosome(regions) == LoopOut("continue", regions, TRUE)

\* main.py:86-87  except ValueError: continue
OnValueError(regions) == LoopOut("continue", regions, TRUE)

LoopBody(i, line, regions, norm_query_chr, q_start, q_end) ==
    IF OverLineCap(i) THEN LoopOut("break", regions, FALSE)
    ELSE IF StartsWithAny(line, {<<"#">>, <<"t","r","a","c","k">>,
                                 <<"b","r","o","w","s","e","r">>})
    THEN LoopOut("continue", regions, TRUE)
    ELSE
      LET fields == Split(Strip(line), "\t") IN
      IF Len(fields) < 3 THEN LoopOut("continue", regions, TRUE)
      ELSE
        LET t_chrom == NormChr(fields[1]) IN
        IF t_chrom # norm_query_chr THEN OtherChromosome(regions)
        ELSE
          LET ps == int(fields[2])
              pe == int(fields[3])
          IN
          IF ~ps.ok \/ ~pe.ok THEN OnValueError(regions)
          ELSE IF PastQuery(ps.v, q_end) THEN LoopOut("break", regions, TRUE)
          ELSE IF check_overlap(q_start, q_end, ps.v, pe.v)
          THEN LET found == Append(regions,
                                [chrom |-> fields[1], start |-> ps.v,
                                 end |-> pe.v, extra |-> Extra3(fields)])
               IN  LoopOut(IF MatchCapReached(found) THEN "break"
                           ELSE "continue", found, TRUE)
          ELSE LoopOut("continue", regions, TRUE)

\* main.py:89-97: what fetch_and_parse_stream returns after the loop
ScanReturn(track_info, regions) ==
    IF regions = <<>> THEN None
    ELSE Some([track_name |-> track_info.track_name,
               assay |-> track_info.assay,
               overlap_count |-> Len(regions),
               results |-> regions])

(***************************************************************************)
(* The catalog (tracks.metadata.tsv) and the track files behind its URLs.  *)
(* A row holds the columns the code reads; col is the entry of schema_map  *)
(* for the row's FILER_BED_type (preprocess.py:37), and Remote gives the   *)
(* decompressed content of the file at processed_file_download_url.  Every *)
(* row of the model has a URL (main.py:39 drops the rows that have none,   *)
(* and preprocess.py:35 returns None for them).                            *)
(***************************************************************************)
DefaultCol == [chrom |-> 0, start |-> 1, end |-> 2]

Track(id, name, col, url) ==
    [identifier |-> id, track_name |-> name, assay |-> "ChIP-seq",
     col |-> col, processed_file_download_url |-> url]

FileA1 == <<Run(HeaderLine, 1), Run(Rec(chr1, 500, 1100, <<peak>>), 1),
            Run(Rec(chr1, 1200, 1300, <<>>), 1)>>
FileB1 == <<Run(Rec(chr2, 0, 5000, <<>>), 1)>>
FileC1 == <<Run(Rec(chrX, 100, 200, <<>>), 1),
            Run(Rec(chrX, 1500, 1600, <<>>), 1)>>
FileA2 == <<Run(BadStartLine, 1), Run(Rec(chr1, 900, 1500, <<>>), 1)>>
FileB2 == <<Run(TwoFieldLine, 1), Run(Rec(CHR1, 1000, 1001, <<peak>>), 1)>>
FileC2 == <<Run(TrackLine, 1), Run(Rec(bare1, 2500, 2600, <<>>), 1)>>

\* files that the builder meets: no data row at all; an HTML page and a
\* browser line before the first row; the interaction schema
DoctypeLine == <<"<","!","D","O","C","T","Y","P","E",">","\n">>
BrowserLine == <<"b","r","o","w","s","e","r"," ","x","\n">>
InteractCol == [chrom |-> 5, start |-> 6, end |-> 7]
FileA3 == <<Run(HeaderLine, 2), Run(TwoFieldLine, 1)>>
FileB3 == <<Run(DoctypeLine, 1), Run(BrowserLine, 1),
            Run(Rec(chr2, 300, 400, <<>>), 1)>>
FileC3 == <<Run(Rec(chr1, 10, 20, <<peak>>), 1),
            Run(Rec(chr1, 10, 20, <<peak, peak, chr2, Dec(700), Dec(800)>>), 1)>>

\* files that the indexer samples: two intervals of one track; an interval
\* whose start is its end and a line that does not parse; an interval whose
\* start is past its end; more records than the reservoir holds, after a
\* header line
FileX == <<Run(HeaderLine, 1), Run(Rec(chr1, 100, 300, <<>>), 1),
           Run(Rec(chr1, 250, 400, <<peak>>), 1)>>
FileY == <<Run(TrackLine, 1), Run(Rec(chr2, 100, 100, <<>>), 1),
           Run(BadStartLine, 1)>>
FileZ == <<Run(Rec(chr1, 200, 100, <<>>), 1)>>
FileSample == <<Run(HeaderLine, 1),
                Run(Rec(chr1, 100, 300, <<>>), RESERVOIR_SIZE),
                Run(Rec(chr2, 500, 600, <<>>), Extra)>>

\* files around the scanner's caps
FileLong == <<Run(HeaderLine, LINE_CAP - 1), Run(TwoFieldLine, Extra),
              Run(Rec(chr1, 1200, 1300, <<>>), 1)>>
FileDense == <<Run(Rec(chr1, 1200, 1300, <<peak>>), MATCH_CAP + Extra)>>
FileDirty == <<Run(BadStartLine, 1), Run(Rec(chr1, 900, 1500, <<>>), 1),
               Run(BadEndLine, 1), Run(TwoFieldLine, 1),
               Run(Rec(CHR1, 1200, 1300, <<peak, peak, peak, peak>>), 1),
               Run(Rec(chr2, 5000, 6000, <<>>), 1),
               Run(Rec(chr1, 2500, 2600, <<>>), 1),
               Run(Rec(chr1, 1300, 1400, <<>>), 1)>>
FileDirtyDense == <<Run(Rec(chr1, 1200, 1300, <<>>), MATCH_CAP - 1),
                    Run(BadStartLine, 1),
                    Run(Rec(chr1, 1400, 1500, <<>>), Extra)>>

\* files sorted by start within each chromosome: records before, on, at the
\* two ends of and past the range 1000..2000 of chromosome 1 under its three
\* labels, among records of chromosome 2; no record on the range; MATCH_CAP
\* - 1 records on it; LINE_CAP lines with a record on it at the last one
FileSorted == <<Run(HeaderLine, 1),
                Run(Rec(chr1, 100, 500, <<>>), 1),
                Run(Rec(chr2, 1200, 1300, <<>>), 1),
                Run(Rec(chr1, 900, 1000, <<>>), 1),
                Run(Rec(chr1, 900, 1500, <<>>), 1),
                Run(Rec(chr2, 3000, 4000, <<>>), 1),
                Run(Rec(CHR1, 1200, 1300, <<peak>>), 1),
                Run(Rec(bare1, 1999, 2600, <<>>), 1),
                Run(Rec(chr1, 2000, 2100, <<>>), 1),
                Run(Rec(chr1, 2001, 2100, <<>>), 1),
                Run(Rec(chr1, 2500, 2600, <<>>), 1)>>
FileSortedMiss == <<Run(Rec(chr1, 100, 500, <<>>), 1),
                    Run(Rec(chr2, 1200, 1300, <<>>), 1),
                    Run(Rec(chr1, 2500, 2600, <<>>), 1)>>
FileSortedNine == <<Run(Rec(chr1, 1200, 1300, <<>>), MATCH_CAP - 1),
                    Run(Rec(chr1, 2500, 2600, <<>>), 1)>>
FileSortedFull == <<Run(HeaderLine, LINE_CAP - 1),
                    Run(Rec(chr1, 1200, 1300, <<>>), 1)>>

\* what the file server holds at each URL
Remote(url) ==
    CASE url = "long.bed.gz" -> FileLong
      [] url = "dense.bed.gz" -> FileDense
      [] url = "dirty.bed.gz" -> FileDirty
      [] url = "dirtydense.bed.gz" -> FileDirtyDense
      [] url = "A1.bed.gz" -> FileA1
      [] url = "B1.bed.gz" -> FileB1
      [] url = "C1.bed.gz" -> FileC1
      [] url = "A2.bed.gz" -> FileA2
      [] url = "B2.bed.gz" -> FileB2
      [] url = "C2.bed.gz" -> FileC2
      [] url = "A3.bed.gz" -> FileA3
      [] url = "B3.bed.gz" -> FileB3
      [] url = "C3.bed.gz" -> FileC3
      [] url = "X.bed.gz" -> FileX
      [] url = "Y.bed.gz" -> FileY
      [] url = "Z.bed.gz" -> FileZ
      [] url = "sample.bed.gz" -> FileSample
      [] url = "sorted.bed.gz" -> FileSorted
      [] url = "sortedmiss.bed.gz" -> FileSortedMiss
      [] url = "sortednine.bed.gz" -> FileSortedNine
      [] url = "sortedfull.bed.gz" -> FileSortedFull

Catalog1 == <<Track("A", "trackA", DefaultCol, "A1.bed.gz"),
              Track("B", "trackB", DefaultCol, "B1.bed.gz"),
              Track("C", "trackC", DefaultCol, "C1.bed.gz")>>
Catalog2 == <<Track("A", "trackA", DefaultCol, "A2.bed.gz"),
              Track("B", "trackB", DefaultCol, "B2.bed.gz"),
              Track("C", "trackC", DefaultCol, "C2.bed.gz")>>
Catalogs == {Catalog1, Catalog2}
Catalog3 == <<Track("A", "trackA", DefaultCol, "A3.bed.gz"),
              Track("B", "trackB", DefaultCol, "B3.bed.gz"),
              Track("C", "trackC", InteractCol, "C3.bed.gz")>>
\* the catalogs of the builder's runs
BuildCatalogs == Catalogs \cup {Catalog3}
\* one-track catalogs for the scanner
ScanCatalogs ==
    {<<Track("S", "trackS", DefaultCol, url)>> :
        url \in {"long.bed.gz", "dense.bed.gz", "dirty.bed.gz",
                 "dirtydense.bed.gz", "sorted.bed.gz", "sortedmiss.bed.gz",
                 "sortednine.bed.gz", "sortedfull.bed.gz"}}

(***************************************************************************)
(* The boundary index document (track_boundaries.json): a dict from track  *)
(* id to a dict from chromosome key to [min, max].  The entries of tracks  *)
(* that are not in the catalog are never read or written one by one: the   *)
(* document keeps their number (legacy), which len() counts.               *)
(***************************************************************************)
EmptyDict == [x \in {} |-> <<>>]
Put(d, k, v) == [x \in (DOMAIN d) \cup {k} |-> IF x = k THEN v ELSE d[x]]
Doc(legacy, entries) == [legacy |-> legacy, entries |-> entries]
EmptyDoc == Doc(0, EmptyDict)
\* len(boundary_index)
DocLen(doc) == doc.legacy + Cardinality(DOMAIN doc.entries)

\* the index of the 3-track scenario
ScenarioDoc ==
    Doc(0, Put(Put(Put(EmptyDict, "A", Put(EmptyDict, <<"1">>, <<500, 1500>>)),
                   "B", Put(EmptyDict, <<"2">>, <<0, 5000>>)),
               "C", Put(EmptyDict, <<"2">>, <<0, 5000>>)))

\* the file on disk
Absent == [state |-> "absent", doc |-> EmptyDoc]
\* open(OUTPUT_PATH, 'w') has truncated it and json.dump has not completed:
\* what is on disk is no JSON document
Partial == [state |-> "partial", doc |-> EmptyDoc]
Written(doc) == [state |-> "ok", doc |-> doc]

InitFiles ==
    {Absent, Written(ScenarioDoc)}
    \cup {Written(Doc(SAVE_EVERY - g, EmptyDict)) : g \in 1..LegacyGap}

(***************************************************************************)
(* preprocess.py: get_track_bounds.  outcome is what the network gives:    *)
(* "ok" (the body is the start of the gzip file, and the files of the      *)
(* model fit in the byte window) or "error" (requests.get raises, or the   *)
(* body is no gzip data).                                                  *)
(***************************************************************************)
MaxCol(col) ==
    LET m == IF col.chrom > col.start THEN col.chrom ELSE col.start
    IN  IF m > col.end THEN m ELSE col.end

\* preprocess.py:52
ChromKey(label) == Remove(label, <<"c","h","r">>)

RECURSIVE FirstRowBounds(_, _)
FirstRowBounds(row, i) ==
    IF i >= StreamLen(Remote(row.processed_file_download_url)) THEN None
    ELSE
      LET line == LineAt(Remote(row.processed_file_download_url), i) IN
      IF StartsWithAny(line, {<<"#">>, <<"t","r","a","c","k">>,
                              <<"b","r","o","w","s","e","r">>,
                              <<"<","!","D","O","C","T","Y","P","E">>})
      THEN FirstRowBounds(row, i + 1)
      ELSE
        LET fields == Split(Strip(line), "\t") IN
        IF Len(fields) <= MaxCol(row.col) THEN FirstRowBounds(row, i + 1)
        ELSE
          LET chrom == ChromKey(fields[row.col.chrom + 1])
              start == int(fields[row.col.start + 1])
          IN  IF ~start.ok THEN None
              ELSE Some([identifier |-> row.identifier,
                         bounds |-> Put(EmptyDict, chrom,
                                        <<start.v, start.v + WINDOW>>)])

get_track_bounds(row, outcome) ==
    IF outcome # "ok" THEN None ELSE FirstRowBounds(row, 0)

(***************************************************************************)
(* The requests of the model.                                              *)
(***************************************************************************)
Query(chr, start, end, maxTracks) ==
    [chr |-> chr, start |-> start, end |-> end, maxTracks |-> maxTracks]

\* ranges that overlap, touch on either side, miss and invert the boundary
\* ranges of the model's tracks
QueryRanges == {<<1000, 2000>>, <<100, 500>>, <<WINDOW + 500, WINDOW + 600>>,
                <<0, 100>>, <<2000, 1000>>}
QueryMaxTracks == {1, 0, -1}
Queries ==
    {Query(chr1, r[1], r[2], DEFAULT_MAX_TRACKS) : r \in QueryRanges}
    \cup {Query(chr1, 1000, 2000, m) : m \in QueryMaxTracks}
    \cup {Query(chrX, 1000, 2000, DEFAULT_MAX_TRACKS)}
ScanQueries == {Query(chr1, 1000, 2000, DEFAULT_MAX_TRACKS)}
Requests(w) == IF w = "mixed" THEN Queries ELSE ScanQueries

(***************************************************************************)
(* State.                                                                  *)
(***************************************************************************)
VARIABLES
    catalog,          \* the rows of tracks.metadata.tsv, in order
    workload,         \* which requests clients send to /api/overlaps
    probe,            \* a direct call of check_overlap: arguments and results
    file,             \* data/track_boundaries.json on disk
    \* preprocess.py, one run_preprocess process at a time
    bpc,              \* "stopped", "loop" (line 90), "snapshot" (line 97-98,
                      \* the file is open for writing), "final" (line 101-102)
    exit,             \* how the last run ended: "none", "done",
                      \* "allindexed" (line 79), "crashed" (killed, or the
                      \* file did not load) or "aborted" (an exception of a
                      \* call reached the loop of line 90)
    boundary_index,   \* the dict existing_data / boundary_index (one object)
    tasks,            \* the rows of tasks_df
    results,          \* per task, what get_track_bounds returned, once it has
    nxt,              \* position of the for loop in executor.map's results
    run_start,        \* history: the document the current/last run loaded
    indexed,          \* history: the ids the current/last run put in the dict
    fetched,          \* history: the ids the current/last run has called
                      \* get_track_bounds on (a fetch of the track's file)
    failed,           \* history: those of them for which it returned None
    retry,            \* history: the ids that failed in the run before, when
                      \* that run completed
    \* main.py, the server process
    spc,              \* "down", "failed" (startup raised), "idle",
                      \* "scanning" (inside find_overlaps)
    BOUNDARY_INDEX,   \* the global loaded at startup
    query,            \* the parameters of the current/last request
    reached,          \* history: how many catalog rows the pruning loop read
    candidate_tracks, \* the list built by the pruning loop
    futures,          \* one fetch_and_parse_stream call per candidate
    collected,        \* how many futures the main thread has taken a result of
    final_results,
    response,         \* the last response returned, None while there is none
    \* indexer.py, one build_index process (the parent) and its pool
    subset,           \* tracks: the rows that line 101 has sampled
    ipc,              \* "idle", "pool" (lines 103-117), "failed" (an
                      \* exception left build_index), "done"
    samplers,         \* one process_track call per row of subset
    cur,              \* the future the loop of line 106 is at, the row of
                      \* its data that is next and the statement that is next
    db,               \* the store as the parent's connection sees it
    committed,        \* the store as of the last commit
    lastrowid,        \* c.lastrowid
    writers,          \* history: the processes that have executed a
                      \* statement or a commit on the store
    merge             \* a direct call of the Interval Merge Calculator

bvars == <<bpc, exit, boundary_index, tasks, results, nxt, run_start, indexed,
           fetched, failed, retry>>
svars == <<spc, BOUNDARY_INDEX, query, reached, candidate_tracks, futures,
           collected, final_results, response>>
ivars == <<subset, ipc, samplers, cur, db, committed, lastrowid, writers>>
env == <<catalog, workload, probe, merge>>
vars == <<env, file, bvars, svars, ivars>>

NoQuery == [chr |-> <<>>, start |-> 0, end |-> 0, maxTracks |-> 0]

BuilderIdle ==
    /\ bpc = "stopped" /\ exit = "none"
    /\ boundary_index = EmptyDoc /\ tasks = <<>> /\ results = <<>> /\ nxt = 0
    /\ run_start = EmptyDoc /\ indexed = <<>>
    /\ fetched = {} /\ failed = {} /\ retry = {}

ServerDown ==
    /\ spc = "down" /\ BOUNDARY_INDEX = EmptyDoc /\ query = NoQuery
    /\ reached = 0 /\ candidate_tracks = <<>> /\ futures = <<>>
    /\ collected = 0 /\ final_results = <<>> /\ response = None

NoProbe == [called |-> FALSE, qs |-> 0, qe |-> 0, ts |-> 0, te |-> 0,
            ret |-> FALSE, swapped |-> FALSE]

NoMerge == [called |-> FALSE, intervals |-> <<>>, ret |-> 0]

\* the store: the rows of the table metadata and of the R-Tree idx_intervals
\* (whose coordinates are kept as 32-bit floats: the coordinates of the
\* model are small enough to be kept exactly)
EmptyStore == [metadata |-> <<>>, idx_intervals |-> <<>>]
NoCur == [k |-> 0, j |-> 0, stage |-> ""]

IndexerIdle ==
    /\ ipc = "idle" /\ samplers = <<>> /\ cur = NoCur
    /\ db = EmptyStore /\ committed = EmptyStore /\ lastrowid = 0
    /\ writers = {}

Init ==
    /\ catalog \in Catalogs
    /\ workload = "mixed"
    /\ probe = NoProbe
    /\ file \in InitFiles
    /\ BuilderIdle
    /\ ServerDown
    /\ subset = <<>> /\ IndexerIdle
    /\ merge = NoMerge

(***************************************************************************)
(* preprocess.py: run_preprocess.  The builder is an out-of-band batch     *)
(* job and the server reads the file once, at startup: the builder's steps *)
(* are taken before the server starts, and the server starts on the file   *)
(* that a finished or crashed run has left, which loses none of the files  *)
(* the server can load (a run changes the file at lines 97-98 and 101-102  *)
(* only, and may crash right after either).                                *)
(***************************************************************************)
Pending == [done |-> FALSE, val |-> None, exc |-> FALSE, outcome |-> ""]

\* the process is gone: so are its variables
BuilderExit(how) ==
    /\ bpc' = "stopped" /\ exit' = how
    /\ boundary_index' = EmptyDoc /\ tasks' = <<>> /\ results' = <<>>
    /\ nxt' = 0

\* the slip of fetching every row of the catalog again
RemainingAll(df, existing_data) == df

\* line 75: the rows whose identifier is no key of the loaded index
Remaining(df, existing_data) ==
    SelectSeq(df, LAMBDA row :
                      row.identifier \notin DOMAIN existing_data.entries)

\* the slip of starting the run's index empty
StartEmpty(existing_data) == EmptyDoc

\* line 83: boundary_index is the loaded dict itself
StartIndex(existing_data) == existing_data

\* lines 61-83
RunPreprocess ==
    /\ spc = "down" /\ bpc = "stopped"
    /\ indexed' = <<>> /\ fetched' = {} /\ failed' = {}
    /\ retry' = IF exit = "done" THEN failed ELSE {}
    /\ UNCHANGED <<env, ivars, file, svars>>
    /\ IF file.state = "partial"
       THEN \* json.load raises
            /\ BuilderExit("crashed")
            /\ run_start' = EmptyDoc
       ELSE LET existing_data == IF file.state = "absent" THEN EmptyDoc
                                 ELSE file.doc
                tasks_df == Remaining(catalog, existing_data)
            IN  /\ run_start' = existing_data
                /\ IF tasks_df = <<>>
                   THEN BuilderExit("allindexed")
                   ELSE /\ bpc' = "loop" /\ exit' = "none"
                        /\ boundary_index' = StartIndex(existing_data)
                        /\ tasks' = tasks_df
                        /\ results' = [k \in 1..Len(tasks_df) |-> Pending]
                        /\ nxt' = 1

\* the slip of catching ValueError alone: what the network raises leaves
\* the call
BoundsUncaught(row, outcome) ==
    [done |-> TRUE, val |-> get_track_bounds(row, outcome),
     exc |-> outcome # "ok", outcome |-> outcome]

\* lines 39-58, as the pool sees the call: its value, and whether an
\* exception left it, which the bare except of line 57 never allows
\* (outcome is kept as history)
BoundsCall(row, outcome) ==
    [done |-> TRUE, val |-> get_track_bounds(row, outcome), exc |-> FALSE,
     outcome |-> outcome]

\* lines 86-90: a pool thread runs get_track_bounds on task k
Fetch(k, outcome) ==
    /\ spc = "down" /\ bpc \in {"loop", "snapshot"}
    /\ k \in 1..Len(tasks) /\ ~results[k].done
    /\ results' = [results EXCEPT ![k] = BoundsCall(tasks[k], outcome)]
    /\ fetched' = fetched \cup {tasks[k].identifier}
    /\ failed' = IF BoundsCall(tasks[k], outcome).val = None
                 THEN failed \cup {tasks[k].identifier} ELSE failed
    /\ UNCHANGED <<env, ivars, file, bpc, exit, boundary_index, tasks, nxt,
                   run_start, indexed, retry, svars>>

\* line 96
SnapshotDue(index) == DocLen(index) % SAVE_EVERY = 0

\* lines 90-97: the for loop takes the next result, in task order
Consume ==
    /\ spc = "down" /\ bpc = "loop"
    /\ nxt <= Len(tasks) /\ results[nxt].done
    /\ UNCHANGED <<env, ivars, run_start, fetched, failed, retry, svars>>
    /\ IF results[nxt].exc
       THEN \* the iterator of executor.map raises what the call raised, and
            \* nothing in run_preprocess catches it
            /\ BuilderExit("aborted")
            /\ UNCHANGED <<file, indexed>>
       ELSE IF results[nxt].val = None
       THEN /\ nxt' = nxt + 1
            /\ UNCHANGED <<file, bpc, exit, boundary_index, tasks, results,
                           indexed>>
       ELSE LET result == results[nxt].val[1]
                index == Doc(boundary_index.legacy,
                             Put(boundary_index.entries, result.identifier,
                                 result.bounds))
            IN  /\ boundary_index' = index
                /\ indexed' = Append(indexed, result.identifier)
                /\ UNCHANGED <<exit, tasks, results>>
                /\ IF SnapshotDue(index)
                   THEN \* open(OUTPUT_PATH, 'w') truncates the file
                        /\ bpc' = "snapshot" /\ file' = Partial
                        /\ nxt' = nxt
                   ELSE /\ nxt' = nxt + 1
                        /\ UNCHANGED <<file, bpc>>

\* line 98: json.dump completes and the file is closed
SnapshotDone ==
    /\ spc = "down" /\ bpc = "snapshot"
    /\ file' = Written(boundary_index)
    /\ bpc' = "loop" /\ nxt' = nxt + 1
    /\ UNCHANGED <<env, ivars, exit, boundary_index, tasks, results, run_start,
                   indexed, fetched, failed, retry, svars>>

\* line 101: the loop is over, open(OUTPUT_PATH, 'w') truncates the file
FinalOpen ==
    /\ spc = "down" /\ bpc = "loop" /\ nxt > Len(tasks)
    /\ file' = Partial /\ bpc' = "final"
    /\ UNCHANGED <<env, ivars, exit, boundary_index, tasks, results, nxt,
                   run_start, indexed, fetched, failed, retry, svars>>

\* lines 102-104
FinalDone ==
    /\ spc = "down" /\ bpc = "final"
    /\ file' = Written(boundary_index)
    /\ BuilderExit("done")
    /\ UNCHANGED <<env, ivars, run_start, indexed, fetched, failed, retry, svars>>

\* the process is killed (or the machine stops) at any point of a run
Crash ==
    /\ spc = "down" /\ bpc # "stopped"
    /\ BuilderExit("crashed")
    /\ UNCHANGED <<env, ivars, file, run_start, indexed, fetched, failed, retry,
                   svars>>

(***************************************************************************)
(* main.py: startup_event (load_metadata, load_boundary_index).            *)
(***************************************************************************)
Startup ==
    /\ spc = "down" /\ bpc = "stopped"
    /\ IF file.state = "partial"
       THEN \* json.load raises and the application does not start
            /\ spc' = "failed" /\ UNCHANGED BOUNDARY_INDEX
       ELSE /\ spc' = "idle"
            /\ BOUNDARY_INDEX' = IF file.state = "ok" THEN file.doc
                                 ELSE EmptyDoc
    \* the history of the builder's runs ends here
    /\ exit' = "none" /\ run_start' = EmptyDoc /\ indexed' = <<>>
    /\ fetched' = {} /\ failed' = {} /\ retry' = {}
    /\ UNCHANGED <<env, ivars, file, bpc, boundary_index, tasks, results, nxt,
                   query, reached, candidate_tracks, futures, collected,
                   final_results, response>>

(***************************************************************************)
(* main.py: find_overlaps, the pruning loop (lines 104-122).               *)
(***************************************************************************)
\* the slip of admitting a track whose entry lacks the query's chromosome
PrunedOnRangeOnly(track, index, norm_chr, start, end) ==
    LET tid == track.identifier IN
    /\ tid \in DOMAIN index.entries
    /\ norm_chr \in DOMAIN index.entries[tid]
    /\ \/ end < index.entries[tid][norm_chr][1]
       \/ start > index.entries[tid][norm_chr][2]

\* lines 110-118: TRUE when the loop takes one of its two `continue`s
Pruned(track, index, norm_chr, start, end) ==
    LET tid == track.identifier IN
    IF tid \in DOMAIN index.entries
    THEN LET bounds == index.entries[tid] IN
         IF norm_chr \in DOMAIN bounds
         THEN LET t_min == bounds[norm_chr][1]
                  t_max == bounds[norm_chr][2]
              IN  end < t_min \/ start > t_max
         ELSE TRUE
    ELSE FALSE

\* lines 121-122
CandidateLimit(candidates, maxTracks) == Len(candidates) >= maxTracks

\* the loop from row k on: the candidate list and the number of rows read
RECURSIVE PruneLoop(_, _, _, _, _)
PruneLoop(meta, index, q, k, candidates) ==
    IF k > Len(meta) THEN [candidates |-> candidates, reached |-> Len(meta)]
    ELSE IF Pruned(meta[k], index, NormChr(q.chr), q.start, q.end)
    THEN PruneLoop(meta, index, q, k + 1, candidates)
    ELSE LET more == Append(candidates, meta[k]) IN
         IF CandidateLimit(more, q.maxTracks)
         THEN [candidates |-> more, reached |-> k]
         ELSE PruneLoop(meta, index, q, k + 1, more)

\* a submitted call of fetch_and_parse_stream: i is the number of lines the
\* loop has read, examined the number of them that got past the guard on i,
\* how it ended ("returned", "status", "raised"), and exc: an exception left it
Queued(track) ==
    [track |-> track, pc |-> "queued", how |-> "", i |-> 0, examined |-> 0,
     regions |-> <<>>, ret |-> None, exc |-> FALSE]

\* lines 102-128: the request arrives, the candidates are listed and one
\* call per candidate is submitted to the pool.  The handler blocks the event
\* loop until it returns, so requests are served one at a time.
FindOverlaps(q) ==
    /\ spc = "idle" /\ q \in Requests(workload)
    /\ LET p == PruneLoop(catalog, BOUNDARY_INDEX, q, 1, <<>>) IN
       /\ candidate_tracks' = p.candidates
       /\ reached' = p.reached
       /\ futures' = [k \in 1..Len(p.candidates) |-> Queued(p.candidates[k])]
    /\ query' = q
    /\ spc' = "scanning"
    /\ collected' = 0 /\ final_results' = <<>> /\ response' = None
    /\ UNCHANGED <<env, ivars, file, bvars, BOUNDARY_INDEX>>

(***************************************************************************)
(* main.py: fetch_and_parse_stream, run by a pool thread.                  *)
(***************************************************************************)
Running == {k \in 1..Len(futures) : futures[k].pc = "scan"}

\* the slip of letting the exception leave fetch_and_parse_stream
FailedRaising(w, how) ==
    [w EXCEPT !.pc = "done", !.how = how, !.regions = <<>>, !.ret = None,
              !.exc = (how = "raised")]

\* lines 54-55 and 98-99: return None (i and examined stay, as history)
Failed(w, how) ==
    [w EXCEPT !.pc = "done", !.how = how, !.regions = <<>>, !.ret = None]

\* lines 48-55: a free pool thread takes call k and sends the request;
\* outcome is that requests.get raises, or the HTTP status of the response
Statuses == {HTTP_OK, 404}
GetOutcomes ==
    {[raised |-> TRUE, status |-> 0]}
    \cup {[raised |-> FALSE, status |-> st] : st \in Statuses}
WorkerGet(k, outcome) ==
    /\ spc = "scanning"
    /\ k \in 1..Len(futures) /\ futures[k].pc = "queued"
    /\ Cardinality(Running) < SCAN_WORKERS
    /\ futures' = [futures EXCEPT ![k] =
          IF outcome.raised THEN Failed(@, "raised")
          ELSE IF outcome.status # HTTP_OK THEN Failed(@, "status")
          ELSE [@ EXCEPT !.pc = "scan"]]
    /\ UNCHANGED <<env, ivars, file, bvars, spc, BOUNDARY_INDEX, query, reached,
                   candidate_tracks, collected, final_results, response>>

\* lines 60-97: one iteration of the loop over the lines of f, or its end,
\* and then the return
ScanStep(w, f, q) ==
    IF w.i >= StreamLen(f)
    THEN [w EXCEPT !.pc = "done", !.how = "returned",
                   !.ret = ScanReturn(w.track, w.regions)]
    ELSE LET out == LoopBody(w.i, LineAt(f, w.i), w.regions,
                             NormChr(q.chr), q.start, q.end)
             read == [w EXCEPT !.i = w.i + 1,
                               !.examined = IF out.examined THEN @ + 1 ELSE @,
                               !.regions = out.regions]
         IN  IF out.ctl = "break"
             THEN [read EXCEPT !.pc = "done", !.how = "returned",
                               !.ret = ScanReturn(w.track, out.regions)]
             ELSE read

ScanLine(k) ==
    /\ spc = "scanning"
    /\ k \in 1..Len(futures) /\ futures[k].pc = "scan"
    /\ futures' = [futures EXCEPT ![k] =
          ScanStep(@, Remote(@.track.processed_file_download_url), query)]
    /\ UNCHANGED <<env, ivars, file, bvars, spc, BOUNDARY_INDEX, query, reached,
                   candidate_tracks, collected, final_results, response>>

\* lines 98-99: reading or decompressing the stream raises
ScanError(k) ==
    /\ spc = "scanning"
    /\ k \in 1..Len(futures) /\ futures[k].pc = "scan"
    /\ futures' = [futures EXCEPT ![k] = Failed(@, "raised")]
    /\ UNCHANGED <<env, ivars, file, bvars, spc, BOUNDARY_INDEX, query, reached,
                   candidate_tracks, collected, final_results, response>>

(***************************************************************************)
(* main.py: find_overlaps, lines 129-139.                                  *)
(***************************************************************************)
\* what the framework answers when the handler raises
InternalServerError == [status |-> 500]

\* the slip of taking the results as the calls complete (as_completed)
CollectAsCompleted ==
    /\ spc = "scanning"
    /\ \E k \in 1..Len(futures) :
          /\ futures[k].pc = "done"
          /\ futures' = [futures EXCEPT ![k].pc = "collected"]
          /\ final_results' =
                IF futures[k].ret # None
                THEN Append(final_results, futures[k].ret[1])
                ELSE final_results
    /\ collected' = collected + 1
    /\ UNCHANGED <<env, ivars, file, bvars, spc, BOUNDARY_INDEX, query, reached,
                   candidate_tracks, response>>

\* lines 129-132: f.result() of the next future, in the order submitted;
\* f.result() raises what the call raised, and nothing in find_overlaps
\* catches it
Collect ==
    /\ spc = "scanning"
    /\ collected < Len(futures) /\ futures[collected + 1].pc = "done"
    /\ collected' = collected + 1
    /\ IF futures[collected + 1].exc
       THEN /\ response' = Some(InternalServerError)
            /\ spc' = "idle"
            /\ UNCHANGED final_results
       ELSE /\ final_results' =
                 IF futures[collected + 1].ret # None
                 THEN Append(final_results, futures[collected + 1].ret[1])
                 ELSE final_results
            /\ UNCHANGED <<spc, response>>
    /\ UNCHANGED <<env, ivars, file, bvars, BOUNDARY_INDEX, query, reached,
                   candidate_tracks, futures>>

\* lines 134-139
Respond ==
    /\ spc = "scanning" /\ collected = Len(futures)
    /\ response' = Some([status |-> HTTP_OK,
                         query |-> [chr |-> query.chr, start |-> query.start,
                                    end |-> query.end],
                         tracks_indexed_as_candidates |-> Len(candidate_tracks),
                         total_tracks_found |-> Len(final_results),
                         results |-> final_results])
    /\ spc' = "idle"
    /\ UNCHANGED <<env, ivars, file, bvars, BOUNDARY_INDEX, query, reached,
                   candidate_tracks, futures, collected, final_results>>

(***************************************************************************)
(* indexer.py: the Subset Indexer.  process_track, run by a process of the *)
(* pool, samples the lines of one track file into a reservoir and parses   *)
(* the sample; build_index, the parent, writes each track's rows to the    *)
(* store.                                                                  *)
(***************************************************************************)
\* lines 15-21
get_indices(schema) ==
    IF schema = "bed4+19 interact"
    THEN [c_idx |-> 5, s_idx |-> 6, e_idx |-> 7]
    ELSE [c_idx |-> 0, s_idx |-> 1, e_idx |-> 2]

\* a row of tracks (line 101); the keys that process_track reads with a
\* default (tissue_category, cell_type, assay, data_source) are absent
SampledTrack(id, name, schema, url) ==
    [identifier |-> id, track_name |-> name, FILER_BED_schema |-> schema,
     processed_file_download_url |-> url]

\* lines 32-39
Meta(track_data) ==
    [tid |-> track_data.identifier, name |-> track_data.track_name,
     tissue |-> "Unknown", cell |-> "N/A", assay |-> "Unknown",
     source |-> "Unknown"]

\* line 53: random.randint(0, i), both ends included
DrawRange(i) == 0..i

\* the draws of the model: the ends of the range and the two values around
\* the capacity
Draws(i) ==
    {m \in {0, RESERVOIR_SIZE - 1, RESERVOIR_SIZE, i} : m \in DrawRange(i)}

NoDraw == [made |-> FALSE, i |-> 0, pos |-> 0, m |-> 0, wrote |-> FALSE]

\* a submitted call of process_track: i is the number of lines read, fed
\* the number of them given to the sampler, draw the last draw (history:
\* the i of line 45, the 0-based position of the line among those fed, the
\* draw, and whether line 55 overwrote a slot), data what the call returned
QueuedSample(track_data) ==
    [track |-> track_data, pc |-> "queued", i |-> 0, fed |-> 0,
     reservoir |-> <<>>, draw |-> NoDraw, data |-> <<>>, taken |-> FALSE]

\* line 61: max(c_idx, s_idx, e_idx)
MaxIdx(ix) ==
    LET m == IF ix.c_idx > ix.s_idx THEN ix.c_idx ELSE ix.s_idx
    IN  IF m > ix.e_idx THEN m ELSE ix.e_idx

\* lines 60-71, one line of the reservoir: whether it gives an interval
Parses(line, ix) ==
    LET fields == Split(Strip(line), "\t") IN
    /\ Len(fields) > MaxIdx(ix)
    /\ int(fields[ix.s_idx + 1]).ok
    /\ int(fields[ix.e_idx + 1]).ok

\* lines 64-69
IntervalOf(line, ix, meta) ==
    LET fields == Split(Strip(line), "\t") IN
    [tid |-> meta.tid, name |-> meta.name, tissue |-> meta.tissue,
     cell |-> meta.cell, assay |-> meta.assay, source |-> meta.source,
     chrom |-> fields[ix.c_idx + 1],
     start |-> int(fields[ix.s_idx + 1]).v,
     end |-> int(fields[ix.e_idx + 1]).v]

\* lines 58-72
ParseReservoir(track_data, reservoir) ==
    LET ix == get_indices(track_data.FILER_BED_schema)
        kept == SelectSeq(reservoir, LAMBDA line : Parses(line, ix))
    IN  [j \in 1..Len(kept) |-> IntervalOf(kept[j], ix, Meta(track_data))]

\* lines 45-72: one iteration of the loop over the lines of f with the draw
\* m, or its end, and then the parsing and the return
SampleStep(w, f, m) ==
    IF w.i >= StreamLen(f)
    THEN [w EXCEPT !.pc = "done",
                   !.data = ParseReservoir(w.track, w.reservoir)]
    ELSE LET line == LineAt(f, w.i) IN
         IF StartsWithAny(line, {<<"#">>, <<"t","r","a","c","k">>})
         THEN [w EXCEPT !.i = w.i + 1]
         ELSE IF Len(w.reservoir) < RESERVOIR_SIZE
         THEN [w EXCEPT !.i = w.i + 1, !.fed = w.fed + 1,
                        !.reservoir = Append(w.reservoir, line)]
         ELSE [w EXCEPT !.i = w.i + 1, !.fed = w.fed + 1,
                        !.reservoir = IF m < RESERVOIR_SIZE
                                      THEN [w.reservoir EXCEPT ![m + 1] = line]
                                      ELSE w.reservoir,
                        !.draw = [made |-> TRUE, i |-> w.i, pos |-> w.fed,
                                  m |-> m, wrote |-> m < RESERVOIR_SIZE]]

\* lines 77-104: the store is created empty and every row of tracks is
\* submitted to the pool
BuildIndex ==
    /\ ipc = "idle" /\ subset # <<>>
    /\ ipc' = "pool"
    /\ db' = EmptyStore /\ committed' = EmptyStore
    /\ writers' = {"parent"}
    /\ samplers' = [k \in 1..Len(subset) |-> QueuedSample(subset[k])]
    /\ UNCHANGED <<env, file, bvars, svars, subset, cur, lastrowid>>

Sampling == {k \in 1..Len(samplers) : samplers[k].pc = "stream"}

\* lines 41-44: a free process of the pool takes call k and sends the
\* request; when requests.get raises, line 73-74 returns []
SampleOpen(k, outcome) ==
    /\ ipc \in {"pool", "failed"}
    /\ k \in 1..Len(samplers) /\ samplers[k].pc = "queued"
    /\ Cardinality(Sampling) < Cpus
    /\ samplers' = [samplers EXCEPT ![k] =
          IF outcome = "ok" THEN [@ EXCEPT !.pc = "stream"]
          ELSE [@ EXCEPT !.pc = "done", !.data = <<>>]]
    /\ UNCHANGED <<env, file, bvars, svars, subset, ipc, cur, db, committed,
                   lastrowid, writers>>

SampleLine(k, m) ==
    /\ ipc \in {"pool", "failed"}
    /\ k \in 1..Len(samplers) /\ samplers[k].pc = "stream"
    /\ m \in Draws(samplers[k].i)
    /\ samplers' = [samplers EXCEPT ![k] =
          SampleStep(@, Remote(@.track.processed_file_download_url), m)]
    /\ UNCHANGED <<env, file, bvars, svars, subset, ipc, cur, db, committed,
                   lastrowid, writers>>

\* lines 73-74: reading or decompressing the stream raises (a body that is
\* no gzip data raises at the first line)
SampleError(k) ==
    /\ ipc \in {"pool", "failed"}
    /\ k \in 1..Len(samplers) /\ samplers[k].pc = "stream"
    /\ samplers' = [samplers EXCEPT ![k] =
          [@ EXCEPT !.pc = "done", !.reservoir = <<>>, !.data = <<>>]]
    /\ UNCHANGED <<env, file, bvars, svars, subset, ipc, cur, db, committed,
                   lastrowid, writers>>

\* the slip of taking the id of the interval one past the last row id
NextRowId(rowid) == rowid + 1

\* line 115: the id of the interval is c.lastrowid, the id that the INSERT
\* into metadata has just been given
IntervalId(rowid) == rowid

\* line 110: metadata.id is INTEGER PRIMARY KEY and is not supplied: the
\* row gets the largest id of the table plus one
NewRowId(store) ==
    IF store.metadata = <<>> THEN 1
    ELSE store.metadata[Len(store.metadata)].id + 1

\* line 115: the R-Tree refuses an entry whose minimum is above its maximum
\* (sqlite3.IntegrityError); it takes one whose minimum equals its maximum
StoreAccepts(start, end) == start <= end

NotTaken == {k \in 1..Len(samplers) : ~samplers[k].taken}

\* lines 106-108 and 117: as_completed gives a finished future, in no
\* order that the code fixes; an empty data is passed over
TakeResult(k) ==
    /\ ipc = "pool" /\ cur = NoCur
    /\ k \in NotTaken /\ samplers[k].pc = "done"
    /\ IF samplers[k].data = <<>>
       THEN /\ samplers' = [samplers EXCEPT ![k].taken = TRUE]
            /\ UNCHANGED cur
       ELSE /\ cur' = [k |-> k, j |-> 1, stage |-> "metadata"]
            /\ UNCHANGED samplers
    /\ UNCHANGED <<env, file, bvars, svars, subset, ipc, db, committed,
                   lastrowid, writers>>

\* lines 110-114
InsertMetadata ==
    /\ ipc = "pool" /\ cur.stage = "metadata"
    /\ LET row == samplers[cur.k].data[cur.j]
           id == NewRowId(db)
       IN  /\ db' = [db EXCEPT !.metadata =
                        Append(@, [id |-> id, track_id |-> row.tid,
                                   track_name |-> row.name,
                                   chrom |-> row.chrom, tissue |-> row.tissue,
                                   cell_type |-> row.cell,
                                   assay |-> row.assay,
                                   source |-> row.source])]
           /\ lastrowid' = id
    /\ cur' = [cur EXCEPT !.stage = "interval"]
    /\ writers' = writers \cup {"parent"}
    /\ UNCHANGED <<env, file, bvars, svars, subset, ipc, samplers, committed>>

\* line 115, and the step of the loop of line 109; an exception of the
\* INSERT leaves build_index, and what was not committed is rolled back
InsertInterval ==
    /\ ipc = "pool" /\ cur.stage = "interval"
    /\ writers' = writers \cup {"parent"}
    /\ LET row == samplers[cur.k].data[cur.j] IN
       IF StoreAccepts(row.start, row.end)
       THEN /\ db' = [db EXCEPT !.idx_intervals =
                         Append(@, [id |-> IntervalId(lastrowid),
                                    start |-> row.start, end |-> row.end])]
            /\ cur' = IF cur.j < Len(samplers[cur.k].data)
                      THEN [cur EXCEPT !.j = cur.j + 1, !.stage = "metadata"]
                      ELSE [cur EXCEPT !.stage = "commit"]
            /\ UNCHANGED ipc
       ELSE /\ ipc' = "failed"
            /\ db' = committed
            /\ cur' = NoCur
    /\ UNCHANGED <<env, file, bvars, svars, subset, samplers, committed,
                   lastrowid>>

\* lines 116-117
Commit ==
    /\ ipc = "pool" /\ cur.stage = "commit"
    /\ committed' = db
    /\ samplers' = [samplers EXCEPT ![cur.k].taken = TRUE]
    /\ cur' = NoCur
    /\ writers' = writers \cup {"parent"}
    /\ UNCHANGED <<env, file, bvars, svars, subset, ipc, db, lastrowid>>

\* lines 119-120
CloseIndex ==
    /\ ipc = "pool" /\ cur = NoCur /\ NotTaken = {}
    /\ ipc' = "done"
    /\ UNCHANGED <<env, file, bvars, svars, subset, samplers, cur, db,
                   committed, lastrowid, writers>>

Next ==
    \/ RunPreprocess
    \/ \E k \in 1..Len(tasks), outcome \in {"ok", "error"} : Fetch(k, outcome)
    \/ Consume
    \/ SnapshotDone
    \/ FinalOpen
    \/ FinalDone
    \/ Crash
    \/ Startup
    \/ \E q \in Queries \cup ScanQueries : FindOverlaps(q)
    \/ \E k \in 1..Len(futures), outcome \in GetOutcomes :
           WorkerGet(k, outcome)
    \/ \E k \in 1..Len(futures) : ScanLine(k)
    \/ \E k \in 1..Len(futures) : ScanError(k)
    \/ Collect
    \/ Respond

Spec == Init /\ [][Next]_vars

(***************************************************************************)
(* The scanner alone: the server has started without an index file, so     *)
(* every track is a candidate, and serves a one-track catalog whose file   *)
(* is long, dense or dirty.                                                *)
(***************************************************************************)
InitScan ==
    /\ catalog \in ScanCatalogs
    /\ workload = "scan"
    /\ probe = NoProbe
    /\ file = Absent
    /\ BuilderIdle
    /\ spc = "idle" /\ BOUNDARY_INDEX = EmptyDoc /\ query = NoQuery
    /\ reached = 0 /\ candidate_tracks = <<>> /\ futures = <<>>
    /\ collected = 0 /\ final_results = <<>> /\ response = None
    /\ subset = <<>> /\ IndexerIdle
    /\ merge = NoMerge

NextScan ==
    \/ \E q \in ScanQueries : FindOverlaps(q)
    \/ \E k \in 1..Len(futures), outcome \in GetOutcomes :
           WorkerGet(k, outcome)
    \/ \E k \in 1..Len(futures) : ScanLine(k)
    \/ \E k \in 1..Len(futures) : ScanError(k)
    \/ Collect
    \/ Respond

SpecScan == InitScan /\ [][NextScan]_vars

(***************************************************************************)
(* The Boundary Index Builder alone: runs of run_preprocess, one after the *)
(* other, on the file the run before has left.                             *)
(***************************************************************************)
InitBuild ==
    /\ catalog \in BuildCatalogs
    /\ workload = "mixed"
    /\ probe = NoProbe
    /\ file \in InitFiles
    /\ BuilderIdle
    /\ ServerDown
    /\ subset = <<>> /\ IndexerIdle
    /\ merge = NoMerge

NextBuild ==
    \/ RunPreprocess
    \/ \E k \in 1..Len(tasks), outcome \in {"ok", "error"} : Fetch(k, outcome)
    \/ Consume
    \/ SnapshotDone
    \/ FinalOpen
    \/ FinalDone
    \/ Crash

SpecBuild == InitBuild /\ [][NextBuild]_vars

(***************************************************************************)
(* The Subset Indexer alone: one run of build_index on a sample of a few   *)
(* tracks with short files, and process_track alone on a track with more   *)
(* records than the reservoir holds.                                       *)
(***************************************************************************)
IndexSubsets ==
    {<<SampledTrack("X", "trackX", "bed3", "X.bed.gz"),
       SampledTrack("Y", "trackY", "bed6", "Y.bed.gz"),
       SampledTrack("I", "trackI", "bed4+19 interact", "C3.bed.gz")>>,
     <<SampledTrack("X", "trackX", "bed3", "X.bed.gz"),
       SampledTrack("Z", "trackZ", "bed3", "Z.bed.gz")>>}
SampleSubsets ==
    {<<SampledTrack("S", "trackS", "bed3", "sample.bed.gz")>>}

InitIndex ==
    /\ catalog = Catalog1
    /\ workload = "mixed"
    /\ probe = NoProbe
    /\ file = Absent
    /\ BuilderIdle
    /\ ServerDown
    /\ subset \in IndexSubsets /\ IndexerIdle
    /\ merge = NoMerge

NextIndex ==
    \/ BuildIndex
    \/ \E k \in 1..Len(samplers), outcome \in {"ok", "error"} :
           SampleOpen(k, outcome)
    \/ \E k \in 1..Len(samplers) :
           \E m \in Draws(samplers[k].i) : SampleLine(k, m)
    \/ \E k \in 1..Len(samplers) : SampleError(k)
    \/ \E k \in 1..Len(samplers) : TakeResult(k)
    \/ InsertMetadata
    \/ InsertInterval
    \/ Commit
    \/ CloseIndex

SpecIndex == InitIndex /\ [][NextIndex]_vars

InitSample ==
    /\ catalog = Catalog1
    /\ workload = "mixed"
    /\ probe = NoProbe
    /\ file = Absent
    /\ BuilderIdle
    /\ ServerDown
    /\ subset \in SampleSubsets /\ IndexerIdle
    /\ merge = NoMerge

NextSample ==
    \/ BuildIndex
    \/ \E k \in 1..Len(samplers), outcome \in {"ok", "error"} :
           SampleOpen(k, outcome)
    \/ \E k \in 1..Len(samplers) :
           \E m \in Draws(samplers[k].i) : SampleLine(k, m)
    \/ \E k \in 1..Len(samplers) : SampleError(k)

SpecSample == InitSample /\ [][NextSample]_vars

(***************************************************************************)
(* check_overlap alone, called on every pair of ranges over 0..MaxCoord,   *)
(* each way round.                                                         *)
(***************************************************************************)
CallCheckOverlap(qs, qe, ts, te) ==
    /\ probe' = [called |-> TRUE, qs |-> qs, qe |-> qe, ts |-> ts, te |-> te,
                 ret |-> check_overlap(qs, qe, ts, te),
                 swapped |-> check_overlap(ts, te, qs, qe)]
    /\ UNCHANGED <<catalog, workload, merge, file, bvars, svars, ivars>>

InitOverlap == Init /\ catalog = Catalog1 /\ file = Absent

NextOverlap ==
    \E qs, qe, ts, te \in 0..MaxCoord : CallCheckOverlap(qs, qe, ts, te)

SpecOverlap == InitOverlap /\ [][NextOverlap]_vars

(***************************************************************************)
(* The Interval Merge Calculator (specification, section 4.1): a pure      *)
(* function of an unordered collection of (start, end) intervals, here a   *)
(* sequence in the order the caller holds them.                            *)
(***************************************************************************)
Interval(start, end) == [start |-> start, end |-> end]
Length(iv) == iv.end - iv.start
Larger(a, b) == IF a >= b THEN a ELSE b

\* "sort by start ascending"
RECURSIVE InsertByStart(_, _)
InsertByStart(iv, sorted) ==
    IF sorted = <<>> THEN <<iv>>
    ELSE IF iv.start < Head(sorted).start THEN <<iv>> \o sorted
    ELSE <<Head(sorted)>> \o InsertByStart(iv, Tail(sorted))
RECURSIVE SortByStart(_)
SortByStart(intervals) ==
    IF intervals = <<>> THEN <<>>
    ELSE InsertByStart(Head(intervals), SortByStart(Tail(intervals)))

\* a calculator that never merges
StartsNewBlock(next, curEnd) == FALSE
\* "if its start is before curEnd": the next interval joins the block
MergesInto(next, curEnd) == next.start < curEnd

\* "sweep once, maintaining a running [curStart, curEnd] block": merge by
\* extending curEnd to max(curEnd, next.end), otherwise flush the block's
\* length into the running total and start a new block; "flush the final
\* block after the sweep"
RECURSIVE Sweep(_, _, _, _)
Sweep(rest, curStart, curEnd, total) ==
    IF rest = <<>> THEN total + (curEnd - curStart)
    ELSE LET next == Head(rest) IN
         IF MergesInto(next, curEnd)
         THEN Sweep(Tail(rest), curStart, Larger(curEnd, next.end), total)
         ELSE Sweep(Tail(rest), next.start, next.end,
                    total + (curEnd - curStart))

\* "Must handle zero intervals (returns 0)"
IntervalMergeCalculator(intervals) ==
    IF intervals = <<>> THEN 0
    ELSE LET sorted == SortByStart(intervals) IN
         Sweep(Tail(sorted), sorted[1].start, sorted[1].end, 0)

\* the inputs of the specification's examples
MergeExample == <<Interval(10, 20), Interval(15, 25), Interval(30, 40)>>
MergeScenario == <<Interval(100, 300), Interval(250, 400)>>

SmallIntervals ==
    UNION {{Interval(a, b) : b \in (a + 1)..MaxPos} : a \in 0..MaxPos}
SmallCollections ==
    UNION {[1..n -> SmallIntervals] : n \in 0..MaxIntervals}
MergeInputs == SmallCollections \cup {MergeExample, MergeScenario}

\* one call in each behaviour, on any of the inputs
CallMerge ==
    /\ ~merge.called
    /\ \E intervals \in MergeInputs :
          merge' = [called |-> TRUE, intervals |-> intervals,
                    ret |-> IntervalMergeCalculator(intervals)]
    /\ UNCHANGED <<catalog, workload, probe, file, bvars, svars, ivars>>

InitMerge == Init /\ catalog = Catalog1 /\ file = Absent

NextMerge == CallMerge

SpecMerge == InitMerge /\ [][NextMerge]_vars

(***************************************************************************)
(* Properties of the pruning loop.                                         *)
(***************************************************************************)
Candidate(track) ==
    \E j \in 1..Len(candidate_tracks) : candidate_tracks[j] = track
Dispatched(track) ==
    \E j \in 1..Len(futures) : futures[j].track = track
Pruning == spc = "scanning"

\* the entry that the Boundary Index Builder writes for a track
BuilderWrote(track) ==
    /\ get_track_bounds(track, "ok") # None
    /\ track.identifier \in DOMAIN BOUNDARY_INDEX.entries
    /\ BOUNDARY_INDEX.entries[track.identifier]
           = get_track_bounds(track, "ok")[1].bounds

\* the loaded entry of the track holds a range, on the chromosome of the
\* query up to case and "chr" prefix, that overlaps the query (half-open)
OverlapsPersisted(track, q) ==
    LET bounds == BOUNDARY_INDEX.entries[track.identifier] IN
    \E c \in DOMAIN bounds :
        /\ NormChr(c) = NormChr(q.chr)
        /\ q.start < bounds[c][2] /\ bounds[c][1] < q.end

\* C1: for a query with start < end, every catalog track that the pruning
\* loop reaches and for which the index written by the builder holds a range
\* on the query's chromosome (case- and "chr"-insensitive) overlapping the
\* query is in the candidate list.
C1_PruningKeepsOverlappingTracks ==
    (Pruning /\ query.start < query.end) =>
        \A k \in 1..reached :
            (BuilderWrote(catalog[k]) /\ OverlapsPersisted(catalog[k], query))
                => Candidate(catalog[k])

\* the track's id is in the index, without the normalized query chromosome
EntryLacksChromosome(track, q) ==
    /\ track.identifier \in DOMAIN BOUNDARY_INDEX.entries
    /\ NormChr(q.chr) \notin DOMAIN BOUNDARY_INDEX.entries[track.identifier]
NotInIndex(track) == track.identifier \notin DOMAIN BOUNDARY_INDEX.entries

Scenario ==
    /\ BOUNDARY_INDEX = ScenarioDoc
    /\ query.chr = chr1 /\ query.start = 1000 /\ query.end = 2000
OnlyADispatched ==
    /\ Len(futures) = 1 /\ futures[1].track.identifier = "A"
    /\ Len(candidate_tracks) = 1 /\ candidate_tracks[1].identifier = "A"

C3_NonOverlappingEntryExcluded ==
    Pruning =>
        \A k \in 1..Len(catalog) :
            LET tid == catalog[k].identifier
                c == NormChr(query.chr)
            IN  (/\ tid \in DOMAIN BOUNDARY_INDEX.entries
                 /\ c \in DOMAIN BOUNDARY_INDEX.entries[tid]
                 /\ ~(/\ query.start < BOUNDARY_INDEX.entries[tid][c][2]
                      /\ BOUNDARY_INDEX.entries[tid][c][1] < query.end))
                    => ~Candidate(catalog[k])

\* C4: a request with end <= start is rejected before any work is
\* dispatched: no candidate list is built and no call of
\* fetch_and_parse_stream is submitted.
C4_InvertedRangeRejected ==
    (spc = "scanning" /\ query.end <= query.start) =>
        (candidate_tracks = <<>> /\ futures = <<>>)

\* C13: the candidate list that find_overlaps builds and dispatches never
\* holds more than maxTracks tracks, whatever integer maxTracks is, and so
\* tracks_indexed_as_candidates in the response is at most maxTracks.
C13_CandidatesWithinMaxTracks ==
    /\ Pruning =>
           /\ Len(candidate_tracks) <= query.maxTracks
           /\ Len(futures) <= query.maxTracks
    /\ (spc = "idle" /\ response # None /\ response[1].status = HTTP_OK) =>
           response[1].tracks_indexed_as_candidates <= query.maxTracks

(***************************************************************************)
(* Properties of the fan-out.                                              *)
(***************************************************************************)
\* the calls that have ended without a result: by status, by an exception,
\* or with no matching record
NoResult(w) ==
    w.pc = "done" /\ (w.how \in {"status", "raised"} \/ w.regions = <<>>)

RECURSIVE ResultsOf(_)
ResultsOf(fs) ==
    IF fs = <<>> THEN <<>>
    ELSE (IF NoResult(fs[1]) THEN <<>> ELSE <<fs[1].ret[1]>>)
         \o ResultsOf(Tail(fs))

\* C5: a call of fetch_and_parse_stream that meets a non-200 status, an
\* exception at any point of the fetch or the scan, or no matching record
\* returns None and lets no exception out; find_overlaps then still answers
\* with a well-formed response, whose results are exactly the results of the
\* other candidates.
C5_TrackFailuresNotFatal ==
    /\ \A k \in 1..Len(futures) :
           NoResult(futures[k]) => (futures[k].ret = None /\ ~futures[k].exc)
    /\ (spc = "idle" /\ response # None) =>
           /\ response[1].status = HTTP_OK
           /\ response[1].results = ResultsOf(futures)
           /\ response[1].total_tracks_found = Len(response[1].results)
           /\ response[1].tracks_indexed_as_candidates = Len(futures)

\* a response built from three candidates: one failed by an exception in the
\* middle of its scan, one by its status, and one gave a result
C5_Witness ==
    /\ spc = "idle" /\ response # None /\ Len(futures) = 3
    /\ \E a, b, c \in 1..3 :
           /\ futures[a].how = "raised" /\ futures[a].i > 0
           /\ futures[b].how = "status"
           /\ futures[c].ret # None
    /\ Len(response[1].results) = 1

\* the results of the calls fs that returned one, in the order of fs
Matched(fs) ==
    LET some == SelectSeq(fs, LAMBDA w : w.ret # None)
    IN  [j \in 1..Len(some) |-> some[j].ret[1]]

\* C18: whatever the order in which the pool threads run and finish, one
\* call is dispatched for each candidate, in candidate order; the results
\* taken so far are those of the first calls in that order; and the response
\* holds in results the non-None results of all the calls, each once and in
\* candidate order, with total_tracks_found = len(results) <=
\* tracks_indexed_as_candidates = the number of calls dispatched.
C18_ResultsInCandidateOrder ==
    /\ Pruning =>
           /\ Len(futures) = Len(candidate_tracks)
           /\ \A k \in 1..Len(futures) :
                  futures[k].track = candidate_tracks[k]
           /\ \A k \in 1..collected : futures[k].pc = "done"
           /\ final_results = Matched(SubSeq(futures, 1, collected))
    /\ (spc = "idle" /\ response # None /\ response[1].status = HTTP_OK) =>
           LET r == response[1] IN
           /\ \A k \in 1..Len(futures) : futures[k].pc = "done"
           /\ r.results = Matched(futures)
           /\ \A a, b \in 1..Len(r.results) :
                  a # b => r.results[a].track_name # r.results[b].track_name
           /\ r.total_tracks_found = Len(r.results)
           /\ r.total_tracks_found <= r.tracks_indexed_as_candidates
           /\ r.tracks_indexed_as_candidates = Len(futures)

\* the call of a later candidate has returned a result while the call of an
\* earlier one is still reading its file, and the handler, having taken the
\* outcome of the calls before it, waits for the earlier one
C18_Witness ==
    /\ Pruning /\ collected >= 1 /\ collected < Len(futures)
    /\ futures[collected + 1].pc = "scan"
    /\ \E b \in 1..Len(futures) :
           b > collected + 1 /\ futures[b].pc = "done" /\ futures[b].ret # None

(***************************************************************************)
(* Properties of the Boundary Index Builder.                               *)
(***************************************************************************)
Loadable == file.state # "partial"
\* the ids the run indexed that the file does not hold
Lost == {k \in 1..Len(indexed) : indexed[k] \notin DOMAIN file.doc.entries}

\* C10: after a crash at any point of a run the persisted file is loadable
\* and holds every entry persisted before the run, and all the entries the
\* run indexed but fewer than SAVE_EVERY of the most recent ones.
C10_CrashLosesLastBatchOnly ==
    exit = "crashed" =>
        /\ Loadable
        /\ file.doc.legacy = run_start.legacy
        /\ \A id \in DOMAIN run_start.entries :
               /\ id \in DOMAIN file.doc.entries
               /\ file.doc.entries[id] = run_start.entries[id]
        /\ Cardinality(Lost) < SAVE_EVERY
        /\ \A j, k \in 1..Len(indexed) : (j \in Lost /\ j < k) => k \in Lost

CatalogIds == {catalog[k].identifier : k \in 1..Len(catalog)}
TaskIds == {tasks[k].identifier : k \in 1..Len(tasks)}
\* a run of run_preprocess is under way or has ended
RunSeen == bpc # "stopped" \/ exit # "none"

\* C11: run_preprocess calls get_track_bounds for no track whose id is a key
\* of the index it loaded, and when every id of the catalog is a key of it,
\* the run ends at line 79 without a fetch and leaves the file as it was.
C11_ResumableIdempotent ==
    /\ \A id \in fetched : id \notin DOMAIN run_start.entries
    /\ \A id \in TaskIds : id \notin DOMAIN run_start.entries
    /\ (RunSeen /\ CatalogIds \subseteq DOMAIN run_start.entries) =>
           /\ exit = "allindexed" /\ fetched = {}
           /\ file = Written(run_start)

\* a run on the index that earlier runs built for the whole catalog has
\* ended without a fetch
C11_Witness ==
    /\ exit = "allindexed" /\ fetched = {}
    /\ CatalogIds \subseteq DOMAIN file.doc.entries
    /\ \A k \in 1..Len(catalog) :
           /\ get_track_bounds(catalog[k], "ok") # None
           /\ file.doc.entries[catalog[k].identifier]
                  = get_track_bounds(catalog[k], "ok")[1].bounds

\* the kinds of failure of one track, read off its file: its lines that are
\* no header and hold the columns of the schema
DataRowsAt(row) ==
    LET f == Remote(row.processed_file_download_url) IN
    {i \in 0..(StreamLen(f) - 1) :
        /\ ~StartsWithAny(LineAt(f, i),
                          {<<"#">>, <<"t","r","a","c","k">>,
                           <<"b","r","o","w","s","e","r">>,
                           <<"<","!","D","O","C","T","Y","P","E">>})
        /\ Len(Split(Strip(LineAt(f, i)), "\t")) > MaxCol(row.col)}
NoDataRow(row) == DataRowsAt(row) = {}
BadFirstRow(row) ==
    /\ DataRowsAt(row) # {}
    /\ LET i == CHOOSE j \in DataRowsAt(row) :
                    \A h \in DataRowsAt(row) : j <= h
           fields == Split(Strip(LineAt(Remote(row.processed_file_download_url),
                                        i)), "\t")
       IN  ~int(fields[row.col.start + 1]).ok
\* the request or the decompression raises (a network error, a body that
\* is no gzip data or is cut before a data row), or the file gives no bounds
FetchFails(row, outcome) ==
    outcome # "ok" \/ NoDataRow(row) \/ BadFirstRow(row)

\* C12: a failure for one track never aborts the run: get_track_bounds
\* returns None for it (and a value otherwise) and lets no exception out,
\* the track is absent from the persisted index, every track whose fetch
\* succeeded is in the index persisted at completion, and a track that
\* failed in a completed run is a task of the next run, fetched by the time
\* that run completes.
C12_BuilderFailuresNotFatal ==
    /\ exit # "aborted"
    /\ \A k \in 1..Len(results) :
           results[k].done =>
               /\ ~results[k].exc
               /\ FetchFails(tasks[k], results[k].outcome)
                      <=> (results[k].val = None)
               /\ (results[k].val = None) <=> (tasks[k].identifier \in failed)
    /\ \A id \in failed : id \notin DOMAIN file.doc.entries
    /\ exit = "done" =>
           /\ \A id \in fetched \ failed : id \in DOMAIN file.doc.entries
           /\ retry \subseteq fetched
    /\ bpc # "stopped" => retry \subseteq TaskIds

\* a second run has completed: it fetched again the two tracks that failed
\* in the first, one of which failed again while the other is persisted
C12_Witness ==
    /\ exit = "done" /\ Cardinality(retry) = 2
    /\ \E a, b \in retry :
           /\ a \in failed /\ a \notin DOMAIN file.doc.entries
           /\ b \in fetched \ failed /\ b \in DOMAIN file.doc.entries
    /\ \E k \in 1..Len(catalog) :
           /\ catalog[k].identifier \in failed
           /\ (NoDataRow(catalog[k]) \/ BadFirstRow(catalog[k]))

\* C17: every key/value pair of the index that a run loaded at its start is,
\* with the same value, in the run's dict and in every document the run has
\* written to the file (snapshots and final save); the entries of tracks
\* outside the catalog, which the document counts, are all still there.
C17_ExistingEntriesUndisturbed ==
    /\ bpc # "stopped" =>
           /\ boundary_index.legacy = run_start.legacy
           /\ \A id \in DOMAIN run_start.entries :
                  /\ id \in DOMAIN boundary_index.entries
                  /\ boundary_index.entries[id] = run_start.entries[id]
    /\ (RunSeen /\ file.state = "ok") =>
           /\ file.doc.legacy = run_start.legacy
           /\ \A id \in DOMAIN run_start.entries :
                  /\ id \in DOMAIN file.doc.entries
                  /\ file.doc.entries[id] = run_start.entries[id]

\* a run that loaded an index with entries has added to it and has written
\* the final document
C17_Witness ==
    /\ exit = "done" /\ file.state = "ok"
    /\ DOMAIN run_start.entries # {}
    /\ Len(indexed) > 0
    /\ DOMAIN file.doc.entries # DOMAIN run_start.entries

(***************************************************************************)
(* Properties of the Streaming Overlap Scanner.                            *)
(***************************************************************************)
\* fetch_and_parse_stream from its first line to its return, as a function
RECURSIVE ScanAll(_, _, _)
ScanAll(w, f, q) ==
    IF w.pc = "done" THEN w ELSE ScanAll(ScanStep(w, f, q), f, q)

\* a malformed record: fewer than 3 fields, or on the query's chromosome
\* with a start or an end that is no integer
Malformed(line, q) ==
    LET fields == Split(Strip(line), "\t") IN
    \/ Len(fields) < 3
    \/ /\ NormChr(fields[1]) = NormChr(q.chr)
       /\ (~int(fields[2]).ok \/ ~int(fields[3]).ok)

\* the stream without its malformed records
Clean(f, q) == SelectSeq(f, LAMBDA run : ~Malformed(run.line, q))

Returned(w) == w.pc = "done" /\ w.how = "returned"
FileOf(w) == Remote(w.track.processed_file_download_url)
InSeq(x, seq) == \E j \in 1..Len(seq) : seq[j] = x

\* C6: when the line cap is not reached, the scanner's result on a stream
\* holds every match of its result on the same stream with the malformed
\* records removed: a malformed record is skipped and the scan goes on.
C6_MalformedRecordsSkipped ==
    \A k \in 1..Len(futures) :
        (Returned(futures[k]) /\ StreamLen(FileOf(futures[k])) <= LINE_CAP) =>
            LET clean == ScanAll([Queued(futures[k].track) EXCEPT !.pc = "scan"],
                                 Clean(FileOf(futures[k]), query), query)
            IN  \A j \in 1..Len(clean.regions) :
                    InSeq(clean.regions[j], futures[k].regions)

\* the scan of the dirty file has returned the two matches that stand after
\* its malformed records
C6_Witness ==
    \E k \in 1..Len(futures) :
        /\ Returned(futures[k])
        /\ futures[k].track.processed_file_download_url = "dirty.bed.gz"
        /\ Clean(FileOf(futures[k]), query) # FileOf(futures[k])
        /\ Len(futures[k].regions) = 2
        /\ futures[k].ret # None

\* C7: fetch_and_parse_stream examines (compares, splits or parses) no more
\* than LINE_CAP lines of a stream.
C7_AtMostLineCapExamined ==
    \A k \in 1..Len(futures) : futures[k].examined <= LINE_CAP

\* C8: at most MATCH_CAP matches are returned per track, no line is read
\* once the MATCH_CAP-th match is recorded, and overlap_count is the number
\* of returned intervals, between 1 and MATCH_CAP.
C8_AtMostMatchCapReturned ==
    \A k \in 1..Len(futures) :
        LET w == futures[k] IN
        /\ Len(w.regions) <= MATCH_CAP
        /\ Len(w.regions) = MATCH_CAP =>
               /\ w.pc = "done"
               /\ LoopBody(w.i - 1, LineAt(FileOf(w), w.i - 1),
                           SubSeq(w.regions, 1, MATCH_CAP - 1),
                           NormChr(query.chr), query.start, query.end).regions
                      = w.regions
        /\ w.ret # None =>
               /\ w.ret[1].overlap_count = Len(w.ret[1].results)
               /\ w.ret[1].overlap_count \in 1..MATCH_CAP

\* the scan of the dense file has returned MATCH_CAP matches and has left
\* the rest of the stream unread
C8_Witness ==
    \E k \in 1..Len(futures) :
        /\ Returned(futures[k])
        /\ futures[k].ret # None
        /\ futures[k].ret[1].overlap_count = MATCH_CAP
        /\ futures[k].i = MATCH_CAP
        /\ futures[k].i < StreamLen(FileOf(futures[k]))

\* a record of the stream: a data line of three fields or more whose start
\* and end are integers
IsRecord(line) ==
    /\ ~StartsWithAny(line, {<<"#">>, <<"t","r","a","c","k">>,
                              <<"b","r","o","w","s","e","r">>})
    /\ LET fields == Split(Strip(line), "\t") IN
       /\ Len(fields) >= 3
       /\ int(fields[2]).ok /\ int(fields[3]).ok
ChromOf(line) == NormChr(Split(Strip(line), "\t")[1])
StartOf(line) == int(Split(Strip(line), "\t")[2]).v
EndOf(line) == int(Split(Strip(line), "\t")[3]).v

\* the records of f are sorted ascending by start within each chromosome
SortedWithinChromosome(f) ==
    \A a, b \in 1..Len(f) :
        (a < b /\ IsRecord(f[a].line) /\ IsRecord(f[b].line)
           /\ ChromOf(f[a].line) = ChromOf(f[b].line))
            => StartOf(f[a].line) <= StartOf(f[b].line)

\* a record of the query's chromosome whose [start, end) overlaps the
\* query's [start, end)
OverlapsQuery(line, q) ==
    /\ IsRecord(line)
    /\ ChromOf(line) = NormChr(q.chr)
    /\ q.start < EndOf(line) /\ StartOf(line) < q.end

RECURSIVE Copies(_, _)
Copies(x, n) == IF n = 0 THEN <<>> ELSE <<x>> \o Copies(x, n - 1)

\* the records of f that overlap the query, in stream order, as the scanner
\* reports a record
RECURSIVE Expected(_, _)
Expected(f, q) ==
    IF f = <<>> THEN <<>>
    ELSE (IF OverlapsQuery(f[1].line, q)
          THEN LET fields == Split(Strip(f[1].line), "\t") IN
               Copies([chrom |-> fields[1], start |-> StartOf(f[1].line),
                       end |-> EndOf(f[1].line),
                       extra |-> Extra3(fields)], f[1].n)
          ELSE <<>>)
         \o Expected(Tail(f), q)

\* the scanner's stated assumption
ScannerAssumption(f, q) ==
    /\ StreamLen(f) <= LINE_CAP
    /\ SortedWithinChromosome(f)
    /\ Len(Expected(f, q)) < MATCH_CAP

\* C20: on a fetched stream of at most LINE_CAP lines, sorted by start
\* within each chromosome and with fewer than MATCH_CAP records overlapping
\* the query, fetch_and_parse_stream returns exactly the records of the
\* query's chromosome that overlap the query, in stream order, and None
\* when there is none: the stop at start > q_end drops no such record.
C20_ScannerExactOnSortedStream ==
    \A k \in 1..Len(futures) :
        LET w == futures[k]
            want == Expected(FileOf(w), query)
        IN  (Returned(w) /\ ScannerAssumption(FileOf(w), query)) =>
                /\ (want = <<>>) => w.ret = None
                /\ (want # <<>>) =>
                       /\ w.ret # None
                       /\ w.ret[1].results = want
                       /\ w.ret[1].overlap_count = Len(want)

\* the scan of the sorted file has stopped at the first record past the
\* query, before the end of the stream, having passed records of another
\* chromosome, and has returned the three records on the query
C20_Witness ==
    \E k \in 1..Len(futures) :
        LET w == futures[k] IN
        /\ Returned(w) /\ ScannerAssumption(FileOf(w), query)
        /\ w.i < StreamLen(FileOf(w))
        /\ PastQuery(StartOf(LineAt(FileOf(w), w.i - 1)), query.end)
        /\ \E j \in 0..(w.i - 1) :
               /\ IsRecord(LineAt(FileOf(w), j))
               /\ ChromOf(LineAt(FileOf(w), j)) # NormChr(query.chr)
               /\ StartOf(LineAt(FileOf(w), j)) > query.end
        /\ w.ret # None /\ Len(w.ret[1].results) = 3

(***************************************************************************)
(* Properties of the Subset Indexer.                                       *)
(***************************************************************************)
\* C14: every row of idx_intervals that build_index has persisted
\* (committed) has start < end, whatever the lines of the track files.
C14_PersistedIntervalsProper ==
    \A j \in 1..Len(committed.idx_intervals) :
        committed.idx_intervals[j].start < committed.idx_intervals[j].end

\* every id of one table is the id of exactly one row of the other
Paired(store) ==
    /\ \A a \in 1..Len(store.idx_intervals) :
           Cardinality({b \in 1..Len(store.metadata) :
               store.metadata[b].id = store.idx_intervals[a].id}) = 1
    /\ \A b \in 1..Len(store.metadata) :
           Cardinality({a \in 1..Len(store.idx_intervals) :
               store.idx_intervals[a].id = store.metadata[b].id}) = 1
TrackIdsIn(store) ==
    {store.metadata[b].track_id : b \in 1..Len(store.metadata)}
\* the rows that the connection holds and no commit has persisted
Uncommitted ==
    {b \in 1..Len(db.metadata) : b > Len(committed.metadata)}

\* C15: every statement and commit on the store is executed by the parent;
\* the rows written since the last commit are rows of the one track the
\* parent is at, so the rows of a track are written and committed before a
\* row of another track is written, and the rows of a track stand together;
\* after each commit the ids of idx_intervals and of metadata pair up one to
\* one, and the tracks in the store are those whose data the parent has
\* taken.
C15_SingleWriterStore ==
    /\ writers \subseteq {"parent"}
    /\ \A b \in Uncommitted :
           /\ cur.k # 0
           /\ db.metadata[b].track_id = samplers[cur.k].track.identifier
    /\ \A a, b, c \in 1..Len(db.metadata) :
           (a < b /\ b < c /\ db.metadata[a].track_id = db.metadata[c].track_id)
               => db.metadata[b].track_id = db.metadata[a].track_id
    /\ Paired(committed)
    /\ Len(committed.metadata) = Len(committed.idx_intervals)
    /\ TrackIdsIn(committed)
           = {samplers[k].track.identifier :
                 k \in {h \in 1..Len(samplers) :
                           samplers[h].taken /\ samplers[h].data # <<>>}}

\* the rows of one track are committed, the parent is in the middle of the
\* rows of a second, and a process of the pool is reading the file of a
\* third
C15_Witness ==
    /\ ipc = "pool" /\ Cardinality(TrackIdsIn(committed)) = 1
    /\ Len(committed.metadata) = 2
    /\ cur.k # 0 /\ Uncommitted # {}
    /\ \E k \in 1..Len(samplers) :
           samplers[k].pc = "stream" /\ samplers[k].i > 0

\* C19: the reservoir never holds more than RESERVOIR_SIZE lines, and for
\* a line fed once the reservoir is full the draw lies in [0, i], i being
\* the 0-based position of the line among the lines fed to the sampler
\* (skipped header lines not counted); slot m is overwritten exactly when
\* the draw m is below RESERVOIR_SIZE.
C19_DrawWithinRecordIndex ==
    \A k \in 1..Len(samplers) :
        LET w == samplers[k] IN
        /\ Len(w.reservoir) <= RESERVOIR_SIZE
        /\ w.draw.made =>
               /\ w.draw.m \in 0..w.draw.pos
               /\ w.draw.wrote <=> (w.draw.m < RESERVOIR_SIZE)
               /\ w.draw.wrote =>
                      w.reservoir[w.draw.m + 1]
                          = LineAt(Remote(w.track.processed_file_download_url),
                                   w.draw.i)

(***************************************************************************)
(* Properties of the Interval Merge Calculator.                            *)
(***************************************************************************)
Positions(iv) == iv.start..(iv.end - 1)
Covered(intervals) ==
    UNION {Positions(intervals[j]) : j \in 1..Len(intervals)}
RECURSIVE SumOfLengths(_)
SumOfLengths(intervals) ==
    IF intervals = <<>> THEN 0
    ELSE Length(Head(intervals)) + SumOfLengths(Tail(intervals))
PairwiseDisjoint(intervals) ==
    \A a, b \in 1..Len(intervals) :
        a # b => Positions(intervals[a]) \cap Positions(intervals[b]) = {}

\* C16: for a collection of intervals with start < end, in any order, the
\* calculator returns the number of integer positions that the union of the
\* intervals covers: 0 for no interval, the length of a single interval,
\* the sum of the lengths of pairwise disjoint intervals, never more than
\* the sum of the lengths, and 25 for [{10,20},{15,25},{30,40}].
C16_MergeCountsCoveredPositions ==
    merge.called =>
        LET v == merge.intervals
            r == merge.ret
        IN  /\ r = Cardinality(Covered(v))
            /\ (v = <<>>) => r = 0
            /\ (Len(v) = 1) => r = Length(v[1])
            /\ PairwiseDisjoint(v) => r = SumOfLengths(v)
            /\ r <= SumOfLengths(v)
            /\ (v = MergeExample) => r = 25
            /\ (v = MergeScenario) => r = 300

\* three intervals given out of order, two of them overlapping and one
\* apart: the result is below the sum of the lengths
C16_Witness ==
    /\ merge.called /\ Len(merge.intervals) = 3
    /\ merge.intervals[1].start > merge.intervals[2].start
    /\ ~PairwiseDisjoint(merge.intervals)
    /\ Positions(merge.intervals[1]) \cap Positions(merge.intervals[3]) = {}
    /\ Positions(merge.intervals[2]) \cap Positions(merge.intervals[3]) = {}
    /\ merge.ret < SumOfLengths(merge.intervals)
    /\ merge.ret = Cardinality(Covered(merge.intervals))

(***************************************************************************)
(* Properties of check_overlap.                                            *)
(***************************************************************************)
\* C9: for qs < qe and ts < te, check_overlap gives the same answer with the
\* two ranges exchanged, FALSE whenever te <= qs or ts >= qe, and TRUE
\* otherwise.
C9_OverlapSymmetricHalfOpen ==
    (probe.called /\ probe.qs < probe.qe /\ probe.ts < probe.te) =>
        /\ probe.ret = probe.swapped
        /\ probe.ret <=> ~(probe.te <= probe.qs \/ probe.ts >= probe.qe)

\* check_overlap has been called on two ranges that touch, and has said no
C9_Witness ==
    /\ probe.called /\ probe.qs < probe.qe /\ probe.ts < probe.te
    /\ probe.te = probe.qs
    /\ ~probe.ret /\ ~probe.swapped

====
